---- MODULE Spec2Model ----
(***************************************************************************)
(* Model of gptcache/adapter/openai.py: the per-modality adapters that sit *)
(* between the cache orchestration core (adapt) and the OpenAI client.     *)
(*                                                                         *)
(* Python values are modelled as TLA+ records (dicts), strings (str) and   *)
(* sequences (lists).  Every Python object that the model compares is a    *)
(* record carrying a "py" field naming its Python type.                    *)
(***************************************************************************)
EXTENDS Integers, Sequences, FiniteSets, TLC

(***************************************************************************)
(* Bounds of the model.                                                    *)
(***************************************************************************)
\* longest upstream chunk sequence a live streaming call produces
MaxChunks == 2
\* largest moderation input batch and largest moderation result list
MaxBatch == 2

\* the calls in flight; "B" only ever runs as a second streaming chat call
Calls == {"A", "B"}

\* texts a backend or a cache can carry
Texts == {"", "a", "ab"}

\* wall-clock seconds time.time() may return
Times == {1, 2}

(***************************************************************************)
(* Python values.                                                          *)
(***************************************************************************)
None == [py |-> "None"]

\* Answer(content, DataType.X) of gptcache.manager.scalar_data.base
Answer(content, kind) == [py |-> "Answer", answer |-> content, answer_type |-> kind]

\* the error classes a live call can raise: openai.OpenAIError (any subclass)
\* and any other exception (a per-class llm override may raise anything)
BackendErrors == {"OpenAIError", "OtherError"}

(***************************************************************************)
(* gptcache.utils.error.wrap_error and the try/except of every             *)
(* _llm_handler: only openai.OpenAIError is caught and re-raised wrapped.  *)
(***************************************************************************)
wrap_error(e) == [py |-> "CacheError", cause |-> e]

RawError(e) == [py |-> e, cause |-> e]

\* _llm_handler without its try/except: the backend error leaves it as raised
LlmHandlerNoWrap(outcome) ==
    IF outcome.ok THEN outcome
    ELSE [ok |-> FALSE, error |-> RawError(outcome.error)]

\* try: return <live call> except openai.OpenAIError as e: raise wrap_error(e)
\* outcome is what the live call did: [ok |-> TRUE, value |-> v] or
\* [ok |-> FALSE, error |-> e]
_llm_handler(outcome) ==
    IF outcome.ok THEN outcome
    ELSE [ok |-> FALSE,
          error |-> IF outcome.error = "OpenAIError"
                       THEN wrap_error(outcome.error)
                       ELSE RawError(outcome.error)]

(***************************************************************************)
(* gptcache.utils.response: the accessors of a live response.              *)
(***************************************************************************)
get_message_from_openai_answer(d) == d.choices[1].message.content

get_stream_message_from_openai_answer(d) ==
    IF "content" \in DOMAIN d.choices[1].delta
       THEN d.choices[1].delta.content
       ELSE ""

get_text_from_openai_answer(d) == d.choices[1].text

get_audio_text_from_openai_answer(d) == d.text

(***************************************************************************)
(* gptcache.utils.token.token_counter: the external tokenizer, a           *)
(* deterministic pure function of the text.                                *)
(***************************************************************************)
token_counter(text) == Len(text)

(***************************************************************************)
(* _num_tokens_from_messages: the loop over the messages and over the      *)
(* items of each message.  A message is a dict, modelled as a record; the  *)
(* items of a dict are visited in some order, modelled by picking them one *)
(* by one.  The result carries the number of token_counter calls made.     *)
(***************************************************************************)
tokens_per_message == 3
tokens_per_name == 1
reply_priming_tokens == 3

RECURSIVE MessageItemTokens(_, _)
MessageItemTokens(message, keys) ==
    IF keys = {} THEN [tokens |-> 0, calls |-> 0]
    ELSE LET key == CHOOSE k \in keys : TRUE
             rest == MessageItemTokens(message, keys \ {key})
         IN  [tokens |-> rest.tokens + token_counter(message[key])
                           + (IF key = "name" THEN tokens_per_name ELSE 0),
              calls |-> rest.calls + 1]

RECURSIVE MessagesTokens(_)
MessagesTokens(messages) ==
    IF messages = <<>> THEN [tokens |-> 0, calls |-> 0]
    ELSE LET rest == MessagesTokens(Tail(messages))
             this == MessageItemTokens(Head(messages), DOMAIN Head(messages))
         IN  [tokens |-> tokens_per_message + this.tokens + rest.tokens,
              calls |-> this.calls + rest.calls]

\* _num_tokens_from_messages without the reply-priming tokens
NumTokensNoPriming(messages) ==
    LET loop == MessagesTokens(messages)
    IN  [tokens |-> loop.tokens, calls |-> loop.calls]

_num_tokens_from_messages(messages) ==
    LET loop == MessagesTokens(messages)
    IN  [tokens |-> loop.tokens + reply_priming_tokens, calls |-> loop.calls]

(***************************************************************************)
(* The builders of a chat response from a cached answer.                   *)
(***************************************************************************)
_construct_resp_from_cache(return_message, saved_token, now) ==
    [py |-> "dict",
     gptcache |-> TRUE,
     saved_token |-> saved_token,
     choices |-> << [message |-> [role |-> "assistant", content |-> return_message],
                     finish_reason |-> "stop",
                     index |-> 0] >>,
     created |-> now,
     usage |-> [completion_tokens |-> 0, prompt_tokens |-> 0, total_tokens |-> 0],
     object |-> "chat.completion"]

\* the stream builder with the cached text repeated in the opening chunk
StreamBuilderContentInOpening(return_message, saved_token, now) ==
    [py |-> "list",
     items |-> <<
        [choices |-> << [delta |-> [role |-> "assistant", content |-> return_message],
                         finish_reason |-> "None", index |-> 0] >>,
         created |-> now,
         object |-> "chat.completion.chunk"],
        [choices |-> << [delta |-> [content |-> return_message],
                         finish_reason |-> "None", index |-> 0] >>,
         created |-> now,
         object |-> "chat.completion.chunk"],
        [gptcache |-> TRUE,
         choices |-> << [delta |-> [k \in {} |-> ""],
                         finish_reason |-> "stop", index |-> 0] >>,
         created |-> now,
         object |-> "chat.completion.chunk",
         saved_token |-> saved_token] >>]

_construct_stream_resp_from_cache(return_message, saved_token, now) ==
    [py |-> "list",
     items |-> <<
        [choices |-> << [delta |-> [role |-> "assistant"],
                         finish_reason |-> "None", index |-> 0] >>,
         created |-> now,
         object |-> "chat.completion.chunk"],
        [choices |-> << [delta |-> [content |-> return_message],
                         finish_reason |-> "None", index |-> 0] >>,
         created |-> now,
         object |-> "chat.completion.chunk"],
        [gptcache |-> TRUE,
         choices |-> << [delta |-> [k \in {} |-> ""],
                         finish_reason |-> "stop", index |-> 0] >>,
         created |-> now,
         object |-> "chat.completion.chunk",
         saved_token |-> saved_token] >>]

\* ChatCompletion.create.cache_data_convert; the result carries the number of
\* tokenizer calls the conversion made
ChatCacheDataConvert(kwargs, enable_token_counter, cache_data, now) ==
    LET input_token == _num_tokens_from_messages(kwargs.messages)
        saved_token == IF enable_token_counter
                          THEN <<input_token.tokens, token_counter(cache_data)>>
                          ELSE <<0, 0>>
        calls == IF enable_token_counter THEN input_token.calls + 1 ELSE 0
    IN  [value |-> IF kwargs.stream
                      THEN _construct_stream_resp_from_cache(cache_data, saved_token, now)
                      ELSE _construct_resp_from_cache(cache_data, saved_token, now),
         tokenizer_calls |-> calls]

(***************************************************************************)
(* The builders of a completion and of an audio response.                  *)
(***************************************************************************)
\* the completion builder with the null finish_reason of a stream chunk
TextBuilderNullFinishReason(return_text, now) ==
    [py |-> "dict",
     gptcache |-> TRUE,
     choices |-> << [text |-> return_text, finish_reason |-> "None", index |-> 0] >>,
     created |-> now,
     usage |-> [completion_tokens |-> 0, prompt_tokens |-> 0, total_tokens |-> 0],
     object |-> "text_completion"]

_construct_text_from_cache(return_text, now) ==
    [py |-> "dict",
     gptcache |-> TRUE,
     choices |-> << [text |-> return_text, finish_reason |-> "stop", index |-> 0] >>,
     created |-> now,
     usage |-> [completion_tokens |-> 0, prompt_tokens |-> 0, total_tokens |-> 0],
     object |-> "text_completion"]

_construct_audio_text_from_cache(return_text) ==
    [py |-> "dict", gptcache |-> TRUE, text |-> return_text]

(***************************************************************************)
(* Images.  The bytes of an encoded image file are a record naming the     *)
(* file format, the dimensions and the picture; base64 text is a record    *)
(* wrapping the bytes it encodes, as Python bytes or as Python str.        *)
(***************************************************************************)
ImageSizes == {<<256, 256>>, <<512, 512>>}

ImageFile(fmt, size, picture) ==
    [py |-> "bytes", format |-> fmt, size |-> size, picture |-> picture]

\* the image files a backend produces
LiveImages == {ImageFile("PNG", sz, "cat") : sz \in ImageSizes}

\* base64.b64encode(raw): bytes holding the base64 text of raw
b64encode(raw) == [py |-> "bytes", b64 |-> raw]

\* base64.b64decode(text): accepts bytes and ASCII str
b64decode(text) == text.b64

\* bytes.decode("ascii") and str.encode("ascii")
decode_ascii(b) == [py |-> "str", b64 |-> b.b64]

encode_ascii(t) == [py |-> "bytes", b64 |-> t.b64]

\* PILImage.open(BytesIO(img_bytes))
PILOpen(img_bytes) == [size |-> img_bytes.size, picture |-> img_bytes.picture]

\* img.resize(new_size)
PILResize(img, new_size) ==
    [size |-> new_size, picture |-> <<"resized", img.picture, img.size>>]

\* img.save(buffered, format="JPEG"); buffered.getvalue()
PILSaveJPEG(img) == ImageFile("JPEG", img.size, img.picture)

\* tuple(int(a) for a in size.split("x"))
ParseSize(size) ==
    CASE size = "256x256" -> <<256, 256>>
      [] size = "512x512" -> <<512, 512>>

RequestSizes == {"256x256", "512x512"}

ResponseFormats == {"url", "b64_json", "bogus"}

\* the image a url of a live response serves
Urls == {"http://img/256", "http://img/512"}

RemoteContent(url) ==
    CASE url = "http://img/256" -> ImageFile("PNG", <<256, 256>>, "cat")
      [] url = "http://img/512" -> ImageFile("PNG", <<512, 512>>, "cat")

\* gptcache.utils.response.get_image_from_openai_b64
get_image_from_openai_b64(d) == d.data[1].b64_json

\* gptcache.utils.response.get_image_from_openai_url: the base64 bytes of
\* the image the url serves
get_image_from_openai_url(d) == b64encode(RemoteContent(d.data[1].url))

(***************************************************************************)
(* _construct_image_create_resp_from_cache.  The result is                 *)
(* [ok, value | error, written]: the envelope or the error raised, and the *)
(* files written, path |-> contents.                                       *)
(***************************************************************************)
ImagePath(now) == <<"abspath", now, ".jpeg">>

\* the image builder treating every unknown response_format as "url"
ImageBuilderDefaultsToUrl(image_data, response_format, size, now) ==
    LET img_bytes == b64decode(image_data)
        img == PILOpen(img_bytes)
        new_size == ParseSize(size)
        buffered == IF new_size # img.size
                       THEN PILSaveJPEG(PILResize(img, new_size))
                       ELSE img_bytes
    IN  CASE response_format = "b64_json" ->
               [ok |-> TRUE,
                value |-> [py |-> "dict", gptcache |-> TRUE, created |-> now,
                           data |-> << [b64_json |-> decode_ascii(b64encode(buffered))] >>],
                written |-> {}]
          [] OTHER ->
               [ok |-> TRUE,
                value |-> [py |-> "dict", gptcache |-> TRUE, created |-> now,
                           data |-> << [url |-> ImagePath(now)] >>],
                written |-> { [path |-> ImagePath(now), contents |-> buffered] }]

\* the image builder re-encoding the image whatever its size
ImageBuilderAlwaysReencodes(image_data, response_format, size, now) ==
    LET img_bytes == b64decode(image_data)
        img == PILOpen(img_bytes)
        new_size == ParseSize(size)
        buffered == PILSaveJPEG(PILResize(img, new_size))
    IN  CASE response_format = "url" ->
               [ok |-> TRUE,
                value |-> [py |-> "dict", gptcache |-> TRUE, created |-> now,
                           data |-> << [url |-> ImagePath(now)] >>],
                written |-> { [path |-> ImagePath(now), contents |-> buffered] }]
          [] response_format = "b64_json" ->
               [ok |-> TRUE,
                value |-> [py |-> "dict", gptcache |-> TRUE, created |-> now,
                           data |-> << [b64_json |-> decode_ascii(b64encode(buffered))] >>],
                written |-> {}]
          [] OTHER ->
               [ok |-> FALSE,
                error |-> [py |-> "AttributeError",
                           message |-> <<"Invalid response_format: ", response_format,
                                         " is not one of ['url', 'b64_json']">>],
                written |-> {}]

_construct_image_create_resp_from_cache(image_data, response_format, size, now) ==
    LET img_bytes == b64decode(image_data)
        img == PILOpen(img_bytes)
        new_size == ParseSize(size)
        buffered == IF new_size # img.size
                       THEN PILSaveJPEG(PILResize(img, new_size))
                       ELSE img_bytes
    IN  CASE response_format = "url" ->
               [ok |-> TRUE,
                value |-> [py |-> "dict", gptcache |-> TRUE, created |-> now,
                           data |-> << [url |-> ImagePath(now)] >>],
                written |-> { [path |-> ImagePath(now), contents |-> buffered] }]
          [] response_format = "b64_json" ->
               [ok |-> TRUE,
                value |-> [py |-> "dict", gptcache |-> TRUE, created |-> now,
                           data |-> << [b64_json |-> decode_ascii(b64encode(buffered))] >>],
                written |-> {}]
          [] OTHER ->
               [ok |-> FALSE,
                error |-> [py |-> "AttributeError",
                           message |-> <<"Invalid response_format: ", response_format,
                                         " is not one of ['url', 'b64_json']">>],
                written |-> {}]

(***************************************************************************)
(* Moderation: json.dumps(llm_data, indent=4) and json.loads(cache_data).  *)
(* A JSON text is a record wrapping the value it serialises.               *)
(***************************************************************************)
json_dumps(value) == [py |-> "str", json |-> value]

json_loads(text) == text.json

(***************************************************************************)
(* The cache-update callbacks, one per modality.  Each returns             *)
(* [stores, ret]: the answers handed to update_cache_func, in order, and   *)
(* the value the callback returns.                                         *)
(***************************************************************************)
\* isinstance(llm_data, Iterator)
IsIterator(llm_data) == llm_data.py = "iterator"

\* calling the generator function hook_openai_data(it) runs none of its body:
\* it makes a generator object over it
hook_openai_data(it) == [py |-> "generator", it |-> it]

ChatUpdateCacheCallback(llm_data) ==
    IF ~IsIterator(llm_data)
       THEN [stores |-> << Answer(get_message_from_openai_answer(llm_data), "STR") >>,
             ret |-> llm_data]
       ELSE [stores |-> << >>, ret |-> hook_openai_data(llm_data)]

\* CompletionUpdateCacheCallback without its return statement
CompletionUpdateCacheCallbackNoReturn(llm_data) ==
    [stores |-> << Answer(get_text_from_openai_answer(llm_data), "STR") >>,
     ret |-> None]

CompletionUpdateCacheCallback(llm_data) ==
    [stores |-> << Answer(get_text_from_openai_answer(llm_data), "STR") >>,
     ret |-> llm_data]

TranscribeUpdateCacheCallback(llm_data) ==
    [stores |-> << Answer(get_audio_text_from_openai_answer(llm_data), "STR") >>,
     ret |-> llm_data]

TranslateUpdateCacheCallback(llm_data) ==
    [stores |-> << Answer(get_audio_text_from_openai_answer(llm_data), "STR") >>,
     ret |-> llm_data]

\* ImageUpdateCacheCallback without the str -> bytes encoding of the payload
ImageUpdateCacheCallbackKeepsStr(response_format, llm_data) ==
    CASE response_format = "b64_json" ->
           [stores |-> << Answer(get_image_from_openai_b64(llm_data), "IMAGE_BASE64") >>,
            ret |-> llm_data]
      [] response_format = "url" ->
           [stores |-> << Answer(get_image_from_openai_url(llm_data), "IMAGE_URL") >>,
            ret |-> llm_data]
      [] OTHER -> [stores |-> << >>, ret |-> llm_data]

ImageUpdateCacheCallback(response_format, llm_data) ==
    CASE response_format = "b64_json" ->
           LET img_b64 == get_image_from_openai_b64(llm_data)
               as_bytes == IF img_b64.py = "str" THEN encode_ascii(img_b64) ELSE img_b64
           IN  [stores |-> << Answer(as_bytes, "IMAGE_BASE64") >>, ret |-> llm_data]
      [] response_format = "url" ->
           [stores |-> << Answer(get_image_from_openai_url(llm_data), "IMAGE_URL") >>,
            ret |-> llm_data]
      [] OTHER -> [stores |-> << >>, ret |-> llm_data]

\* the moderation callback storing only responses that hold results
ModerationUpdateCacheCallbackSkipsEmpty(llm_data) ==
    [stores |-> IF llm_data.results = << >>
                   THEN << >>
                   ELSE << Answer(json_dumps(llm_data), "STR") >>,
     ret |-> llm_data]

ModerationUpdateCacheCallback(llm_data) ==
    [stores |-> << Answer(json_dumps(llm_data), "STR") >>, ret |-> llm_data]

\* the callback each entry point hands to adapt
UpdateCacheCallback(entry, kwargs, llm_data) ==
    CASE entry = "chat" -> ChatUpdateCacheCallback(llm_data)
      [] entry = "completion" -> CompletionUpdateCacheCallback(llm_data)
      [] entry = "transcribe" -> TranscribeUpdateCacheCallback(llm_data)
      [] entry = "translate" -> TranslateUpdateCacheCallback(llm_data)
      [] entry = "image" -> ImageUpdateCacheCallback(kwargs.response_format, llm_data)
      [] entry = "moderation" -> ModerationUpdateCacheCallback(llm_data)

(***************************************************************************)
(* The cache-to-response converters, one per modality.  Each returns       *)
(* [ok, value | error, written, tokenizer_calls].                          *)
(***************************************************************************)
Built(value) == [ok |-> TRUE, value |-> value, written |-> {}, tokenizer_calls |-> 0]

CompletionCacheDataConvert(cache_data, now) ==
    Built(_construct_text_from_cache(cache_data, now))

AudioCacheDataConvert(cache_data) ==
    Built(_construct_audio_text_from_cache(cache_data))

ImageCacheDataConvert(kwargs, cache_data, now) ==
    LET r == _construct_image_create_resp_from_cache(
                 cache_data, kwargs.response_format, kwargs.size, now)
    IN  [k \in DOMAIN r \cup {"tokenizer_calls"} |->
            IF k = "tokenizer_calls" THEN 0 ELSE r[k]]

ModerationCacheDataConvert(cache_data) == Built(json_loads(cache_data))

CacheDataConvert(entry, kwargs, enable_token_counter, cache_data, now) ==
    CASE entry = "chat" ->
           LET r == ChatCacheDataConvert(kwargs, enable_token_counter, cache_data, now)
           IN  [ok |-> TRUE, value |-> r.value, written |-> {},
                tokenizer_calls |-> r.tokenizer_calls]
      [] entry = "completion" -> CompletionCacheDataConvert(cache_data, now)
      [] entry \in {"transcribe", "translate"} -> AudioCacheDataConvert(cache_data)
      [] entry = "image" -> ImageCacheDataConvert(kwargs, cache_data, now)
      [] entry = "moderation" -> ModerationCacheDataConvert(cache_data)

(***************************************************************************)
(* The streaming extractor: one resumption of the generator                *)
(* hook_openai_data, from its creation or from its yield, up to the next   *)
(* yield, its return or the exception that leaves it.  g is the generator  *)
(* [state, pos, total_answer], it the upstream iterator it wraps.  Returns *)
(* the generator after the step, the chunk yielded (if any), the answers   *)
(* handed to update_cache_func and the error raised (if any).              *)
(***************************************************************************)
NewGenerator == [state |-> "created", pos |-> 0, total_answer |-> ""]

NoGenerator == [state |-> "none", pos |-> 0, total_answer |-> ""]

\* HookNext with the delta put in front of the accumulated text
HookNextPrepends(g, it) ==
    IF g.pos < Len(it.chunks)
       THEN LET item == it.chunks[g.pos + 1]
            IN  [gen |-> [state |-> "suspended",
                          pos |-> g.pos + 1,
                          total_answer |-> get_stream_message_from_openai_answer(item)
                              \o g.total_answer],
                 yielded |-> << item >>, stores |-> << >>, raised |-> << >>]
       ELSE IF it.fails
               THEN [gen |-> [g EXCEPT !.state = "failed"],
                     yielded |-> << >>, stores |-> << >>,
                     raised |-> << RawError("OpenAIError") >>]
               ELSE [gen |-> [g EXCEPT !.state = "done"],
                     yielded |-> << >>,
                     stores |-> << Answer(g.total_answer, "STR") >>,
                     raised |-> << >>]

\* HookNext taking the next chunk from upstream before yielding the current one
HookNextReadsAhead(g, it) ==
    IF g.pos < Len(it.chunks)
       THEN LET item == it.chunks[g.pos + 1]
                ahead == IF g.pos + 1 < Len(it.chunks) THEN g.pos + 2 ELSE g.pos + 1
            IN  [gen |-> [state |-> "suspended",
                          pos |-> ahead,
                          total_answer |-> g.total_answer
                              \o get_stream_message_from_openai_answer(item)],
                 yielded |-> << item >>, stores |-> << >>, raised |-> << >>]
       ELSE IF it.fails
               THEN [gen |-> [g EXCEPT !.state = "failed"],
                     yielded |-> << >>, stores |-> << >>,
                     raised |-> << RawError("OpenAIError") >>]
               ELSE [gen |-> [g EXCEPT !.state = "done"],
                     yielded |-> << >>,
                     stores |-> << Answer(g.total_answer, "STR") >>,
                     raised |-> << >>]

\* HookNext storing the answer as soon as the last chunk is yielded
HookNextStoresAtLastChunk(g, it) ==
    IF g.pos < Len(it.chunks)
       THEN LET item == it.chunks[g.pos + 1]
                total == g.total_answer \o get_stream_message_from_openai_answer(item)
            IN  [gen |-> [state |-> "suspended",
                          pos |-> g.pos + 1,
                          total_answer |-> total],
                 yielded |-> << item >>,
                 stores |-> IF g.pos + 1 = Len(it.chunks) /\ ~it.fails
                               THEN << Answer(total, "STR") >> ELSE << >>,
                 raised |-> << >>]
       ELSE IF it.fails
               THEN [gen |-> [g EXCEPT !.state = "failed"],
                     yielded |-> << >>, stores |-> << >>,
                     raised |-> << RawError("OpenAIError") >>]
               ELSE [gen |-> [g EXCEPT !.state = "done"],
                     yielded |-> << >>, stores |-> << >>, raised |-> << >>]

\* HookNext storing the partial answer when upstream raises
HookNextStoresOnFailure(g, it) ==
    IF g.pos < Len(it.chunks)
       THEN LET item == it.chunks[g.pos + 1]
            IN  [gen |-> [state |-> "suspended",
                          pos |-> g.pos + 1,
                          total_answer |-> g.total_answer
                              \o get_stream_message_from_openai_answer(item)],
                 yielded |-> << item >>, stores |-> << >>, raised |-> << >>]
       ELSE IF it.fails
               THEN [gen |-> [g EXCEPT !.state = "failed"],
                     yielded |-> << >>,
                     stores |-> << Answer(g.total_answer, "STR") >>,
                     raised |-> << RawError("OpenAIError") >>]
               ELSE [gen |-> [g EXCEPT !.state = "done"],
                     yielded |-> << >>,
                     stores |-> << Answer(g.total_answer, "STR") >>,
                     raised |-> << >>]

HookNext(g, it) ==
    IF g.pos < Len(it.chunks)
       THEN LET item == it.chunks[g.pos + 1]
            IN  [gen |-> [state |-> "suspended",
                          pos |-> g.pos + 1,
                          total_answer |-> g.total_answer
                              \o get_stream_message_from_openai_answer(item)],
                 yielded |-> << item >>, stores |-> << >>, raised |-> << >>]
       ELSE IF it.fails
               THEN [gen |-> [g EXCEPT !.state = "failed"],
                     yielded |-> << >>, stores |-> << >>,
                     raised |-> << RawError("OpenAIError") >>]
               ELSE [gen |-> [g EXCEPT !.state = "done"],
                     yielded |-> << >>,
                     stores |-> << Answer(g.total_answer, "STR") >>,
                     raised |-> << >>]

\* HookClose as a finally-style flush: the partial text is stored on close
HookCloseFlushes(g) ==
    [gen |-> [g EXCEPT !.state = "closed"],
     stores |-> << Answer(g.total_answer, "STR") >>]

\* the consumer drops the generator: GeneratorExit is raised at the yield (or
\* the body never starts) and nothing after the loop runs
HookClose(g) == [gen |-> [g EXCEPT !.state = "closed"], stores |-> << >>]

(***************************************************************************)
(* Moderation.create, after the first adapt call returned res: the         *)
(* cardinality check.  Returns the kwargs of the rest of the call and      *)
(* whether adapt is called again.                                          *)
(***************************************************************************)
\* ExpectResLen taking an empty list for a single input
ExpectResLenEmptyAsOne(input_request_param) ==
    IF input_request_param.py = "list" /\ input_request_param.items # << >>
       THEN Len(input_request_param.items)
       ELSE 1

ExpectResLen(input_request_param) ==
    IF input_request_param.py = "list" THEN Len(input_request_param.items) ELSE 1

\* ModerationCheck re-issuing the call without setting cache_skip
ModerationCheckKeepsCache(kwargs, res) ==
    IF Len(res.results) # ExpectResLen(kwargs.input)
       THEN [retry |-> TRUE, kwargs |-> kwargs]
       ELSE [retry |-> FALSE, kwargs |-> kwargs]

\* ModerationCheck without the cardinality test
ModerationCheckNeverRetries(kwargs, res) == [retry |-> FALSE, kwargs |-> kwargs]

\* ModerationCheck re-issuing the call whatever the first result holds
ModerationCheckAlwaysRetries(kwargs, res) ==
    [retry |-> TRUE, kwargs |-> [kwargs EXCEPT !.cache_skip = TRUE]]

ModerationCheck(kwargs, res) ==
    IF Len(res.results) # ExpectResLen(kwargs.input)
       THEN [retry |-> TRUE, kwargs |-> [kwargs EXCEPT !.cache_skip = TRUE]]
       ELSE [retry |-> FALSE, kwargs |-> kwargs]

(***************************************************************************)
(* The requests and what the backends and the cache may hold.              *)
(***************************************************************************)
Entries == {"chat", "completion", "transcribe", "translate", "image", "moderation"}

Msg1 == [role |-> "user", content |-> "a"]

Msg2 == [role |-> "user", content |-> "ab", name |-> "a"]

MessageLists == { << >>, << Msg1 >>, << Msg2 >>, << Msg1, Msg2 >> }

PyStr(t) == [py |-> "str", value |-> t]

PyList(items) == [py |-> "list", items |-> items]

PyTuple(items) == [py |-> "tuple", items |-> items]

\* the input of a moderation request: missing, one string, a tuple, or a list
ModerationInputs ==
    {None, PyStr("a"), PyTuple(<< "a", "a" >>)}
        \cup {PyList([i \in 1..n |-> "a"]) : n \in 0..MaxBatch}

DefaultKwargs ==
    [stream |-> FALSE, messages |-> << >>, response_format |-> "url",
     size |-> "256x256", input |-> None, cache_skip |-> FALSE, llm |-> FALSE]

KwargsOf(entry) ==
    CASE entry = "chat" ->
           { [DefaultKwargs EXCEPT !.stream = st, !.messages = ms,
                                   !.cache_skip = sk, !.llm = ov] :
               st \in BOOLEAN, ms \in MessageLists, sk \in BOOLEAN, ov \in BOOLEAN }
      [] entry \in {"completion"} ->
           { [DefaultKwargs EXCEPT !.cache_skip = sk, !.llm = ov] :
               sk \in BOOLEAN, ov \in BOOLEAN }
      [] entry \in {"transcribe", "translate"} ->
           { [DefaultKwargs EXCEPT !.cache_skip = sk] : sk \in BOOLEAN }
      [] entry = "image" ->
           { [DefaultKwargs EXCEPT !.response_format = rf, !.size = sz,
                                   !.cache_skip = sk] :
               rf \in ResponseFormats, sz \in RequestSizes, sk \in BOOLEAN }
      [] entry = "moderation" ->
           { [DefaultKwargs EXCEPT !.input = inp, !.cache_skip = sk, !.llm = ov] :
               inp \in ModerationInputs, sk \in BOOLEAN, ov \in BOOLEAN }

ModerationResponse(id, n) ==
    [py |-> "dict", id |-> id, results |-> [i \in 1..n |-> [flagged |-> FALSE]]]

\* what the cache search returns for the request: nothing (a miss) or the
\* stored answer of an earlier call
CachedFor(entry) ==
    { << >> } \cup
    CASE entry \in {"chat", "completion", "transcribe", "translate"} ->
           { << t >> : t \in Texts }
      [] entry = "image" -> { << b64encode(img) >> : img \in LiveImages }
      [] entry = "moderation" ->
           { << json_dumps(ModerationResponse(<<"modr", "cached", 0>>, n)) >> :
               n \in 0..MaxBatch }

StreamChunk(delta) ==
    [choices |-> << [delta |-> delta, finish_reason |-> "None", index |-> 0] >>,
     object |-> "chat.completion.chunk"]

LiveChunks ==
    { StreamChunk([role |-> "assistant"]), StreamChunk([content |-> "a"]),
      StreamChunk([content |-> "b"]) }

ChunkSeqs == UNION { [1..n -> LiveChunks] : n \in 0..MaxChunks }

\* the responses the live backend (or the llm override) may give to a request
LiveResponses(entry, kwargs, id) ==
    CASE entry = "chat" /\ kwargs.stream ->
           { [py |-> "iterator", id |-> id, chunks |-> cs, fails |-> f] :
               cs \in ChunkSeqs, f \in BOOLEAN }
      [] entry = "chat" /\ ~kwargs.stream ->
           { [py |-> "dict", id |-> id, object |-> "chat.completion",
              choices |-> << [message |-> [role |-> "assistant", content |-> t],
                              finish_reason |-> "stop", index |-> 0] >>] :
               t \in Texts }
      [] entry = "completion" ->
           { [py |-> "dict", id |-> id, object |-> "text_completion",
              choices |-> << [text |-> t, finish_reason |-> "stop", index |-> 0] >>] :
               t \in Texts }
      [] entry \in {"transcribe", "translate"} ->
           { [py |-> "dict", id |-> id, text |-> t] : t \in Texts }
      [] entry = "image" /\ kwargs.response_format = "b64_json" ->
           { [py |-> "dict", id |-> id, data |-> << [b64_json |-> payload] >>] :
               payload \in { b64encode(img) : img \in LiveImages }
                           \cup { decode_ascii(b64encode(img)) : img \in LiveImages } }
      [] entry = "image" /\ kwargs.response_format = "url" ->
           { [py |-> "dict", id |-> id, data |-> << [url |-> u] >>] : u \in Urls }
      [] entry = "image" /\ kwargs.response_format \notin {"b64_json", "url"} -> {}
      [] entry = "moderation" ->
           { ModerationResponse(id, n) : n \in 0..MaxBatch }

LiveOutcomes(entry, kwargs, id) ==
    { [ok |-> TRUE, value |-> v] : v \in LiveResponses(entry, kwargs, id) }
    \cup { [ok |-> FALSE, error |-> e] : e \in BackendErrors }

(***************************************************************************)
(* State.  Every per-call variable is a function of the call.              *)
(***************************************************************************)
VARIABLES
    entry,                 \* the entry point the call invoked ("none": no call)
    kw,                    \* the keyword arguments of the call
    enable_token_counter,  \* cache.config.enable_token_counter
    cached,                \* what a cache search for the request returns
    pc,                    \* position of the call
    attempt,               \* number of adapt invocations made by the call
    adaptLog,              \* the adapt invocations: kwargs, source and outcome
    liveCalls,             \* number of live backend invocations
    llm_data,              \* the last live response
    res,                   \* Moderation.create's local res
    ret,                   \* the value the entry point returned
    err,                   \* the error that left the entry point or the stream
    stored,                \* answers handed to update_cache_func, in order
    tokenizerCalls,        \* number of token_counter invocations
    files,                 \* image files written: path, contents
    gen,                   \* the generator hook_openai_data of the call
    delivered,             \* chunks the consumer of the stream received
    pulls                  \* next() calls the consumer made

vars == << entry, kw, enable_token_counter, cached, pc, attempt, adaptLog,
           liveCalls, llm_data, res, ret, err, stored, tokenizerCalls, files,
           gen, delivered, pulls >>

\* two calls in flight are two streaming chat calls that miss the cache
SecondStreamKwargs ==
    [DefaultKwargs EXCEPT !.stream = TRUE, !.messages = << Msg1 >>]

Init ==
    /\ \E e \in Entries : \E k \in KwargsOf(e) : \E cd \in CachedFor(e) :
         \E second \in BOOLEAN :
           /\ second => (e = "chat" /\ k = SecondStreamKwargs /\ cd = << >>)
           /\ entry = [c \in Calls |->
                         IF c = "A" THEN e ELSE IF second THEN "chat" ELSE "none"]
           /\ kw = [c \in Calls |-> IF c = "A" THEN k ELSE SecondStreamKwargs]
           /\ cached = [c \in Calls |-> IF c = "A" THEN cd ELSE << >>]
           /\ pc = [c \in Calls |->
                      IF c = "A" \/ second THEN "adapt" ELSE "idle"]
           /\ enable_token_counter \in
                 (IF e = "chat" /\ ~second THEN BOOLEAN ELSE {FALSE})
    /\ attempt = [c \in Calls |-> 1]
    /\ adaptLog = [c \in Calls |-> << >>]
    /\ liveCalls = [c \in Calls |-> 0]
    /\ llm_data = [c \in Calls |-> None]
    /\ res = [c \in Calls |-> None]
    /\ ret = [c \in Calls |-> None]
    /\ err = [c \in Calls |-> None]
    /\ stored = [c \in Calls |-> << >>]
    /\ tokenizerCalls = 0
    /\ files = {}
    /\ gen = [c \in Calls |-> NoGenerator]
    /\ delivered = [c \in Calls |-> << >>]
    /\ pulls = [c \in Calls |-> 0]

(***************************************************************************)
(* adapt(llm_handler, cache_data_convert, update_cache_callback, **kwargs) *)
(* of the orchestration core.                                              *)
(***************************************************************************)
\* where adapt's result goes: Moderation.create checks its first result,
\* every other caller returns it
AfterAdapt(c) ==
    IF entry[c] = "moderation" /\ attempt[c] = 1 THEN "check" ELSE "returned"

LogEntry(c, source, outcome, result) ==
    [kwargs |-> kw[c], source |-> source, outcome |-> outcome, result |-> result]

\* a cache hit: the cached answer is converted and returned
AdaptHit(c) ==
    /\ pc[c] = "adapt"
    /\ ~kw[c].cache_skip
    /\ cached[c] # << >>
    /\ \E now \in Times :
         LET r == CacheDataConvert(entry[c], kw[c], enable_token_counter,
                                   cached[c][1], now)
         IN  /\ tokenizerCalls' = tokenizerCalls + r.tokenizer_calls
             /\ files' = files \cup r.written
             /\ IF r.ok
                   THEN /\ pc' = [pc EXCEPT ![c] = AfterAdapt(c)]
                        /\ IF AfterAdapt(c) = "check"
                              THEN res' = [res EXCEPT ![c] = r.value] /\ UNCHANGED ret
                              ELSE ret' = [ret EXCEPT ![c] = r.value] /\ UNCHANGED res
                        /\ UNCHANGED err
                        /\ adaptLog' = [adaptLog EXCEPT
                                          ![c] = Append(@, LogEntry(c, "cache", "ok", r.value))]
                   ELSE /\ pc' = [pc EXCEPT ![c] = "raised"]
                        /\ err' = [err EXCEPT ![c] = r.error]
                        /\ UNCHANGED << res, ret >>
                        /\ adaptLog' = [adaptLog EXCEPT
                                          ![c] = Append(@, LogEntry(c, "cache", "raised", None))]
    /\ UNCHANGED << entry, kw, enable_token_counter, cached, attempt, liveCalls,
                    llm_data, stored, gen, delivered, pulls >>

\* a miss, or a bypassed cache: the live call; its response goes through the
\* cache-update callback unless the cache is bypassed
AdaptMiss(c) ==
    /\ pc[c] = "adapt"
    /\ kw[c].cache_skip \/ cached[c] = << >>
    /\ liveCalls' = [liveCalls EXCEPT ![c] = @ + 1]
    /\ \E outcome \in LiveOutcomes(entry[c], kw[c], << c, attempt[c] >>) :
         LET h == _llm_handler(outcome)
         IN  IF ~h.ok
                THEN /\ pc' = [pc EXCEPT ![c] = "raised"]
                     /\ err' = [err EXCEPT ![c] = h.error]
                     /\ adaptLog' = [adaptLog EXCEPT
                                       ![c] = Append(@, LogEntry(c, "live", "raised", None))]
                     /\ UNCHANGED << llm_data, res, ret, stored, gen >>
                ELSE LET cb == IF kw[c].cache_skip
                                  THEN [stores |-> << >>, ret |-> h.value]
                                  ELSE UpdateCacheCallback(entry[c], kw[c], h.value)
                     IN  /\ llm_data' = [llm_data EXCEPT ![c] = h.value]
                         /\ stored' = [stored EXCEPT ![c] = @ \o cb.stores]
                         /\ gen' = [gen EXCEPT ![c] =
                                      IF cb.ret.py = "generator"
                                         THEN NewGenerator ELSE @]
                         /\ pc' = [pc EXCEPT ![c] = AfterAdapt(c)]
                         /\ IF AfterAdapt(c) = "check"
                               THEN res' = [res EXCEPT ![c] = cb.ret] /\ UNCHANGED ret
                               ELSE ret' = [ret EXCEPT ![c] = cb.ret] /\ UNCHANGED res
                         /\ adaptLog' = [adaptLog EXCEPT
                                           ![c] = Append(@, LogEntry(c, "live", "ok", cb.ret))]
                         /\ UNCHANGED err
    /\ UNCHANGED << entry, kw, enable_token_counter, cached, attempt,
                    tokenizerCalls, files, delivered, pulls >>

(***************************************************************************)
(* Moderation.create after its first adapt call.                           *)
(***************************************************************************)
ModerationCreateCheck(c) ==
    /\ pc[c] = "check"
    /\ LET chk == ModerationCheck(kw[c], res[c])
       IN  IF chk.retry
              THEN /\ kw' = [kw EXCEPT ![c] = chk.kwargs]
                   /\ attempt' = [attempt EXCEPT ![c] = @ + 1]
                   /\ pc' = [pc EXCEPT ![c] = "adapt"]
                   /\ UNCHANGED ret
              ELSE /\ ret' = [ret EXCEPT ![c] = res[c]]
                   /\ pc' = [pc EXCEPT ![c] = "returned"]
                   /\ UNCHANGED << kw, attempt >>
    /\ UNCHANGED << entry, enable_token_counter, cached, adaptLog, liveCalls,
                    llm_data, res, err, stored, tokenizerCalls, files, gen,
                    delivered, pulls >>

(***************************************************************************)
(* The consumer of a wrapped stream: next() and dropping the generator.    *)
(***************************************************************************)
\* Pull with one accumulator shared by every generator
PullSharedAccumulator(c) ==
    /\ pc[c] = "returned"
    /\ gen[c].state \in {"created", "suspended"}
    /\ LET step == HookNext(gen[c], ret[c].it)
       IN  /\ gen' = [d \in Calls |->
                        IF d = c THEN step.gen
                        ELSE IF gen[d].state = "none" THEN gen[d]
                        ELSE [gen[d] EXCEPT !.total_answer = step.gen.total_answer]]
           /\ delivered' = [delivered EXCEPT ![c] = @ \o step.yielded]
           /\ stored' = [stored EXCEPT ![c] = @ \o step.stores]
           /\ err' = [err EXCEPT ![c] =
                        IF step.raised # << >> THEN step.raised[1] ELSE @]
    /\ pulls' = [pulls EXCEPT ![c] = @ + 1]
    /\ UNCHANGED << entry, kw, enable_token_counter, cached, pc, attempt, adaptLog,
                    liveCalls, llm_data, res, ret, tokenizerCalls, files >>

Pull(c) ==
    /\ pc[c] = "returned"
    /\ gen[c].state \in {"created", "suspended"}
    /\ LET step == HookNext(gen[c], ret[c].it)
       IN  /\ gen' = [gen EXCEPT ![c] = step.gen]
           /\ delivered' = [delivered EXCEPT ![c] = @ \o step.yielded]
           /\ stored' = [stored EXCEPT ![c] = @ \o step.stores]
           /\ err' = [err EXCEPT ![c] =
                        IF step.raised # << >> THEN step.raised[1] ELSE @]
    /\ pulls' = [pulls EXCEPT ![c] = @ + 1]
    /\ UNCHANGED << entry, kw, enable_token_counter, cached, pc, attempt, adaptLog,
                    liveCalls, llm_data, res, ret, tokenizerCalls, files >>

Close(c) ==
    /\ pc[c] = "returned"
    /\ gen[c].state \in {"created", "suspended"}
    /\ LET step == HookClose(gen[c])
       IN  /\ gen' = [gen EXCEPT ![c] = step.gen]
           /\ stored' = [stored EXCEPT ![c] = @ \o step.stores]
    /\ UNCHANGED << entry, kw, enable_token_counter, cached, pc, attempt, adaptLog,
                    liveCalls, llm_data, res, ret, err, tokenizerCalls, files,
                    delivered, pulls >>

(***************************************************************************)
(* The same request made again once its answer is stored: the cache search *)
(* of adapt now returns the answer update_cache_func was given.            *)
(***************************************************************************)
Repeat(c) ==
    /\ pc[c] = "returned"
    /\ entry[c] # "moderation"
    /\ Len(adaptLog[c]) = 1
    /\ stored[c] # << >>
    /\ cached' = [cached EXCEPT ![c] = << stored[c][Len(stored[c])].answer >>]
    /\ attempt' = [attempt EXCEPT ![c] = @ + 1]
    /\ pc' = [pc EXCEPT ![c] = "adapt"]
    /\ UNCHANGED << entry, kw, enable_token_counter, adaptLog, liveCalls, llm_data,
                    res, ret, err, stored, tokenizerCalls, files, gen, delivered,
                    pulls >>

Next ==
    \E c \in Calls :
        \/ AdaptHit(c)
        \/ AdaptMiss(c)
        \/ ModerationCreateCheck(c)
        \/ Pull(c)
        \/ Close(c)
        \/ Repeat(c)

Spec == Init /\ [][Next]_vars

\* Moderation.create alone: one call, from its first adapt call to its
\* return.  create is a sequential function, so a step it can take is taken.
ModerationInit == Init /\ entry["A"] = "moderation"

ModerationNext ==
    \/ AdaptHit("A")
    \/ AdaptMiss("A")
    \/ ModerationCreateCheck("A")

ModerationSpec == ModerationInit /\ [][ModerationNext]_vars /\ WF_vars(ModerationNext)

(***************************************************************************)
(* Properties.                                                             *)
(***************************************************************************)
\* the calls whose entry point returned a wrapped stream
Streaming(c) == pc[c] = "returned" /\ gen[c].state # "none"

\* the upstream sequence c1..cn of a streaming call
Upstream(c) == llm_data[c].chunks

RECURSIVE ConcatDeltas(_)
ConcatDeltas(chunks) ==
    IF chunks = << >> THEN ""
    ELSE get_stream_message_from_openai_answer(Head(chunks))
             \o ConcatDeltas(Tail(chunks))

\* C1: a consumer that pulled the wrapped stream to exhaustion received exactly
\* c1..cn in order, and update_cache_func was called exactly once, with the
\* STR answer holding the concatenation of the deltas of c1..cn; before the
\* stream is exhausted (so before cn was delivered) nothing was stored.
C1_StreamPulledFully ==
    \A c \in Calls :
        Streaming(c) =>
            /\ gen[c].state = "done" =>
                   /\ delivered[c] = Upstream(c)
                   /\ stored[c] = << Answer(ConcatDeltas(Upstream(c)), "STR") >>
            /\ stored[c] # << >> =>
                   /\ gen[c].state = "done"
                   /\ delivered[c] = Upstream(c)

C1_Witness ==
    /\ Streaming("A")
    /\ gen["A"].state = "done"
    /\ Len(Upstream("A")) = 2
    /\ stored["A"] = << Answer("ab", "STR") >>
    /\ delivered["A"] = Upstream("A")

\* C2: a consumer that received only c1..ck with k < n and dropped the stream
\* leaves nothing stored, in every state from then on.
C2_StreamAbandoned ==
    \A c \in Calls :
        (Streaming(c) /\ gen[c].state = "closed"
                      /\ Len(delivered[c]) < Len(Upstream(c)))
            => stored[c] = << >>

C2_Witness ==
    /\ Streaming("A")
    /\ gen["A"].state = "closed"
    /\ Len(delivered["A"]) = 1
    /\ Len(Upstream("A")) = 2
    /\ gen["A"].total_answer = "a"
    /\ stored["A"] = << >>

\* the Moderation.create calls
ModerationCall(c) == entry[c] = "moderation"

\* the first adapt call of Moderation.create returned a response whose
\* number of results differs from expect_res_len
FirstMismatch(c) ==
    /\ Len(adaptLog[c]) >= 1
    /\ adaptLog[c][1].outcome = "ok"
    /\ Len(adaptLog[c][1].result.results)
           # ExpectResLen(adaptLog[c][1].kwargs.input)

ForcedFresh(kwargs) == [kwargs EXCEPT !.cache_skip = TRUE]

\* C3: when the first adapt call of Moderation.create returns a response whose
\* number of results differs from expect_res_len, create calls adapt a second
\* time with the same keyword arguments plus cache_skip = True, that call
\* bypasses the cache, and create returns its result, not the first one.
C3_ModerationRetry ==
    \A c \in Calls :
        (ModerationCall(c) /\ FirstMismatch(c) /\ pc[c] # "check") =>
            /\ attempt[c] = 2
            /\ kw[c] = ForcedFresh(adaptLog[c][1].kwargs)
            /\ pc[c] \in {"returned", "raised"} =>
                   /\ Len(adaptLog[c]) = 2
                   /\ adaptLog[c][2].kwargs = ForcedFresh(adaptLog[c][1].kwargs)
                   /\ adaptLog[c][2].source = "live"
            /\ pc[c] = "returned" =>
                   /\ adaptLog[c][2].outcome = "ok"
                   /\ ret[c] = adaptLog[c][2].result
                   /\ ret[c] # adaptLog[c][1].result

C3_Witness ==
    /\ ModerationCall("A")
    /\ pc["A"] = "returned"
    /\ Len(adaptLog["A"]) = 2
    /\ adaptLog["A"][1].source = "cache"
    /\ ~adaptLog["A"][1].kwargs.cache_skip
    /\ Len(adaptLog["A"][1].result.results) = 1
    /\ kw["A"].input = PyList(<< "a", "a" >>)
    /\ Len(ret["A"].results) = 2

\* C4 as claimed: every response Moderation.create returns has as many
\* results as expect_res_len, whatever the live backend returns.
C4_NeverMismatched ==
    \A c \in Calls :
        (ModerationCall(c) /\ pc[c] = "returned") =>
            Len(ret[c].results) = ExpectResLen(kw[c].input)

\* C4 amended: a response Moderation.create returns has as many results as
\* expect_res_len, or it is the unchecked live response of the second,
\* cache-bypassing adapt call; a response built from the cache is never
\* returned with a different number of results.
C4_MismatchOnlyFromLiveRetry ==
    \A c \in Calls :
        (ModerationCall(c) /\ pc[c] = "returned") =>
            \/ Len(ret[c].results) = ExpectResLen(kw[c].input)
            \/ /\ Len(adaptLog[c]) = 2
               /\ FirstMismatch(c)
               /\ adaptLog[c][2].source = "live"
               /\ adaptLog[c][2].kwargs.cache_skip
               /\ ret[c] = adaptLog[c][2].result
               /\ ret[c] = llm_data[c]

C4_Witness ==
    /\ ModerationCall("A")
    /\ pc["A"] = "returned"
    /\ Len(adaptLog["A"]) = 2
    /\ adaptLog["A"][1].source = "cache"
    /\ Len(adaptLog["A"][1].result.results) = 2
    /\ kw["A"].input = PyStr("a")
    /\ Len(ret["A"].results) = 0

\* the last adapt invocation of a call
Last(c) == adaptLog[c][Len(adaptLog[c])]

\* the last adapt invocation ran the cache-update callback on a live response
CallbackRan(c) ==
    /\ adaptLog[c] # << >>
    /\ Last(c).source = "live"
    /\ Last(c).outcome = "ok"
    /\ ~Last(c).kwargs.cache_skip

\* C5 as claimed: every answer Image.create hands to update_cache_func has
\* kind IMAGE_BASE64, for response_format b64_json and url alike.
C5_AlwaysImageBase64 ==
    \A c \in Calls :
        entry[c] = "image" =>
            \A i \in 1..Len(stored[c]) : stored[c][i].answer_type = "IMAGE_BASE64"

\* C5 amended: every answer Image.create hands to update_cache_func holds
\* base64 bytes that decode to an image, so the builder can decode it; its kind
\* is IMAGE_BASE64 when response_format is b64_json and IMAGE_URL when
\* response_format is url; for b64_json the bytes are the live payload's text.
C5_ImageAnswerKinds ==
    \A c \in Calls :
        entry[c] = "image" =>
            \A i \in 1..Len(stored[c]) :
                LET a == stored[c][i]
                IN  /\ a.answer.py = "bytes"
                    /\ "b64" \in DOMAIN a.answer
                    /\ PILOpen(b64decode(a.answer)).size \in ImageSizes
                    /\ kw[c].response_format \in {"b64_json", "url"}
                    /\ kw[c].response_format = "b64_json" =>
                           /\ a.answer_type = "IMAGE_BASE64"
                           /\ a.answer.b64 = llm_data[c].data[1].b64_json.b64
                    /\ kw[c].response_format = "url" =>
                           a.answer_type = "IMAGE_URL"

C5_Witness ==
    /\ entry["A"] = "image"
    /\ kw["A"].response_format = "url"
    /\ Len(stored["A"]) = 1
    /\ stored["A"][1].answer_type = "IMAGE_URL"
    /\ pc["A"] = "returned"

\* C6 as claimed: in every modality, streaming chat included, the cache-update
\* callback returns the live response it was given.
C6_CallbackReturnsLiveResponse ==
    \A c \in Calls : CallbackRan(c) => Last(c).result = llm_data[c]

\* C6 amended: the cache-update callback returns the live response it was
\* given, except for a streaming chat response (an iterator), for which it
\* returns a new generator wrapping that iterator.
C6_CallbackReturn ==
    \A c \in Calls :
        CallbackRan(c) =>
            IF IsIterator(llm_data[c])
               THEN /\ entry[c] = "chat" /\ kw[c].stream
                    /\ Last(c).result.py = "generator"
                    /\ Last(c).result.it = llm_data[c]
                    /\ Last(c).result # llm_data[c]
               ELSE Last(c).result = llm_data[c]

C6_Witness ==
    /\ CallbackRan("A")
    /\ entry["A"] = "chat"
    /\ ret["A"].py = "generator"
    /\ ret["A"].it = llm_data["A"]
    /\ Len(llm_data["A"].chunks) = 2

\* the live call of the last adapt invocation raised
LiveFailure(c) ==
    /\ pc[c] = "raised"
    /\ adaptLog[c] # << >>
    /\ Last(c).source = "live"
    /\ Last(c).outcome = "raised"

\* the upstream of a wrapped stream raised while it was iterated
StreamFailure(c) == gen[c].state = "failed"

\* C7 as claimed: every failure of the live backend reaches the caller as a
\* normalized error.
C7_EveryFailureNormalized ==
    \A c \in Calls :
        (LiveFailure(c) \/ StreamFailure(c)) => err[c].py = "CacheError"

\* C7 amended: an openai.OpenAIError raised by the live call inside
\* _llm_handler reaches the caller wrapped by wrap_error; any other exception
\* of the live call, and an error the upstream raises while a streaming
\* response is iterated, reach the caller unwrapped.  No failure is retried:
\* the failed live call is the last adapt invocation of the call, a failure of
\* Moderation.create's first attempt leaves exactly one adapt invocation, and a
\* failure of its retry leaves create with that error and no return value.
C7_LiveFailures ==
    \A c \in Calls :
        /\ LiveFailure(c) =>
               /\ err[c].py = (IF err[c].cause = "OpenAIError"
                                  THEN "CacheError" ELSE err[c].cause)
               /\ err[c].cause \in BackendErrors
               /\ ret[c] = None
               /\ liveCalls[c] = Cardinality({i \in 1..Len(adaptLog[c]) :
                                                 adaptLog[c][i].source = "live"})
        /\ \A i \in 1..Len(adaptLog[c]) :
               adaptLog[c][i].outcome = "raised" =>
                   /\ i = Len(adaptLog[c])
                   /\ pc[c] = "raised"
                   /\ attempt[c] = i
        /\ StreamFailure(c) =>
               /\ err[c] = RawError("OpenAIError")
               /\ liveCalls[c] = 1

C7_Witness ==
    /\ ModerationCall("A")
    /\ LiveFailure("A")
    /\ Len(adaptLog["A"]) = 2
    /\ err["A"] = wrap_error("OpenAIError")
    /\ liveCalls["A"] = 2

\* C8: the image builder, given a response_format other than url and b64_json,
\* raises the invalid-argument error naming that value, for every cached image
\* and requested size; no envelope is returned and no file is written.
C8_InvalidResponseFormat ==
    \A c \in Calls :
        (/\ entry[c] = "image"
         /\ kw[c].response_format \notin {"url", "b64_json"}
         /\ adaptLog[c] # << >>
         /\ Last(c).source = "cache") =>
            /\ pc[c] = "raised"
            /\ err[c].py = "AttributeError"
            /\ err[c].message[2] = kw[c].response_format
            /\ ret[c] = None
            /\ files = {}

C8_Witness ==
    /\ entry["A"] = "image"
    /\ kw["A"].response_format = "bogus"
    /\ kw["A"].size = "512x512"
    /\ cached["A"] = << b64encode(ImageFile("PNG", <<256, 256>>, "cat")) >>
    /\ pc["A"] = "raised"
    /\ err["A"].py = "AttributeError"

\* a chat call answered from the cache
ChatHit(c) ==
    /\ entry[c] = "chat"
    /\ pc[c] = "returned"
    /\ adaptLog[c] # << >>
    /\ Last(c).source = "cache"

\* the saved_token of a cache-served chat response: on the envelope, or on
\* the terminal chunk of a cache-served stream
SavedToken(r) == IF r.py = "list" THEN r.items[3].saved_token ELSE r.saved_token

RECURSIVE SumOver(_, _)
SumOver(f, S) ==
    IF S = {} THEN 0
    ELSE LET x == CHOOSE y \in S : TRUE IN f[x] + SumOver(f, S \ {x})

\* P = 3 + sum over messages of (3 + sum of count_tokens(value) over every
\* field + 1 if the message has a name field)
ClaimedPromptTokens(messages) ==
    3 + SumOver([i \in DOMAIN messages |->
                    3 + SumOver([k \in DOMAIN messages[i] |->
                                    token_counter(messages[i][k])],
                                DOMAIN messages[i])
                      + (IF "name" \in DOMAIN messages[i] THEN 1 ELSE 0)],
                DOMAIN messages)

\* C9: a cache-served chat response, streamed or not, carries saved_token
\* [0, 0] and no tokenizer call was made when enable_token_counter is off; it
\* carries [P, count_tokens(cached answer)] when it is on.
C9_TokenAccounting ==
    \A c \in Calls :
        ChatHit(c) =>
            IF enable_token_counter
               THEN SavedToken(ret[c])
                        = << ClaimedPromptTokens(kw[c].messages),
                             token_counter(cached[c][1]) >>
               ELSE /\ SavedToken(ret[c]) = << 0, 0 >>
                    /\ tokenizerCalls = 0

C9_Witness ==
    /\ ChatHit("A")
    /\ enable_token_counter
    /\ kw["A"].messages = << Msg1, Msg2 >>
    /\ cached["A"] = << "ab" >>
    /\ SavedToken(ret["A"]) = << 22, 2 >>
    /\ tokenizerCalls = 6

\* C10: for a request with stream set the chat cache-hit builder returns
\* exactly three chunks: the opening chunk (delta is role assistant alone), the
\* content chunk (delta content is the whole cached text) and the terminal
\* chunk (empty delta, finish_reason stop, cache marker, saved_token); only
\* the terminal chunk has a finish_reason or the cache marker, and the delta
\* contents concatenate to the cached text.  Without stream it returns one
\* chat.completion envelope.
C10_StreamFromCache ==
    \A c \in Calls :
        ChatHit(c) =>
            IF kw[c].stream
               THEN LET chunks == ret[c].items
                    IN  /\ ret[c].py = "list"
                        /\ Len(chunks) = 3
                        /\ chunks[1].choices[1].delta = [role |-> "assistant"]
                        /\ chunks[2].choices[1].delta = [content |-> cached[c][1]]
                        /\ DOMAIN chunks[3].choices[1].delta = {}
                        /\ chunks[3].choices[1].finish_reason = "stop"
                        /\ chunks[3].gptcache = TRUE
                        /\ "saved_token" \in DOMAIN chunks[3]
                        /\ \A i \in {1, 2} :
                               /\ chunks[i].choices[1].finish_reason = "None"
                               /\ "gptcache" \notin DOMAIN chunks[i]
                               /\ "saved_token" \notin DOMAIN chunks[i]
                        /\ \A i \in 1..3 :
                               /\ Len(chunks[i].choices) = 1
                               /\ chunks[i].object = "chat.completion.chunk"
                        /\ ConcatDeltas(chunks) = cached[c][1]
               ELSE /\ ret[c].py = "dict"
                    /\ ret[c].object = "chat.completion"
                    /\ Len(ret[c].choices) = 1
                    /\ ret[c].choices[1].message.content = cached[c][1]

C10_Witness ==
    /\ ChatHit("A")
    /\ kw["A"].stream
    /\ cached["A"] = << "ab" >>
    /\ Len(ret["A"].items) = 3
    /\ ret["A"].items[2].choices[1].delta.content = "ab"

\* the call made its request twice: the first went to the live backend and
\* stored its answer, the second was answered from the cache with that answer
RoundTrip(c) ==
    /\ pc[c] = "returned"
    /\ Len(adaptLog[c]) = 2
    /\ adaptLog[c][1].source = "live"
    /\ adaptLog[c][2].source = "cache"

\* C11: the text s of a live response, extracted by the cache-update callback
\* and rebuilt by the cache-hit builder, is exposed unchanged at
\* choices[0].message.content (chat), choices[0].text (completion) and text
\* (audio), with the cache marker true, and finish_reason stop for chat and
\* completion.
C11_TextRoundTrip ==
    \A c \in Calls :
        RoundTrip(c) =>
            /\ (entry[c] = "chat" /\ ~kw[c].stream) =>
                   /\ stored[c] = << Answer(llm_data[c].choices[1].message.content, "STR") >>
                   /\ ret[c].choices[1].message.content
                          = llm_data[c].choices[1].message.content
                   /\ ret[c].choices[1].finish_reason = "stop"
                   /\ ret[c].gptcache = TRUE
            /\ entry[c] = "completion" =>
                   /\ stored[c] = << Answer(llm_data[c].choices[1].text, "STR") >>
                   /\ ret[c].choices[1].text = llm_data[c].choices[1].text
                   /\ ret[c].choices[1].finish_reason = "stop"
                   /\ ret[c].gptcache = TRUE
            /\ entry[c] \in {"transcribe", "translate"} =>
                   /\ stored[c] = << Answer(llm_data[c].text, "STR") >>
                   /\ ret[c].text = llm_data[c].text
                   /\ ret[c].gptcache = TRUE

C11_Witness ==
    /\ RoundTrip("A")
    /\ entry["A"] = "completion"
    /\ llm_data["A"].choices[1].text = "ab"
    /\ ret["A"].choices[1].text = "ab"
    /\ ret["A"] # llm_data["A"]

\* an Image.create call answered from the cache
ImageHit(c) ==
    /\ entry[c] = "image"
    /\ pc[c] = "returned"
    /\ adaptLog[c] # << >>
    /\ Last(c).source = "cache"

\* the bytes a cache-served image response gives the caller: the decoded
\* b64_json payload, or the contents of the file its url names
OutputBytes(c) ==
    IF kw[c].response_format = "b64_json"
       THEN b64decode(ret[c].data[1].b64_json)
       ELSE (CHOOSE f \in files : f.path = ret[c].data[1].url).contents

\* the requested size "WxH" as the pair W, H
RequestedSize(c) ==
    CASE kw[c].size = "256x256" -> << 256, 256 >>
      [] kw[c].size = "512x512" -> << 512, 512 >>

\* C12: when the requested size equals the dimensions of the stored image the
\* output bytes (the b64_json payload decoded, or the contents of the file
\* written for url) are the stored decoded bytes; when it differs the output
\* is a re-encoded image whose dimensions are the requested W and H.
C12_ImageResize ==
    \A c \in Calls :
        ImageHit(c) =>
            LET original == b64decode(cached[c][1])
            IN  /\ kw[c].response_format = "url" =>
                       Cardinality({f \in files : f.path = ret[c].data[1].url}) = 1
                /\ kw[c].response_format = "b64_json" =>
                       /\ files = {}
                       /\ ret[c].data[1].b64_json.py = "str"
                /\ IF RequestedSize(c) = original.size
                      THEN OutputBytes(c) = original
                      ELSE /\ OutputBytes(c).size = RequestedSize(c)
                           /\ OutputBytes(c).format = "JPEG"
                           /\ OutputBytes(c) # original

C12_Witness ==
    /\ ImageHit("A")
    /\ kw["A"].response_format = "url"
    /\ kw["A"].size = "512x512"
    /\ b64decode(cached["A"][1]).size = << 256, 256 >>
    /\ OutputBytes("A").size = << 512, 512 >>

\* the calls that were handed a generator of hook_openai_data
Hooked(c) == gen[c].state # "none"

\* C13: the generator is pull-driven and never reads ahead: the number of
\* chunks taken from upstream is at most the number of pulls of the consumer,
\* and between pulls every chunk taken has been delivered, in order, so
\* c(i) is delivered before c(i+1) is requested and no chunk is held back.
C13_PullDriven ==
    \A c \in Calls :
        Hooked(c) =>
            /\ gen[c].pos <= pulls[c]
            /\ gen[c].pos <= Len(Upstream(c))
            /\ Len(delivered[c]) = gen[c].pos
            /\ delivered[c] = SubSeq(Upstream(c), 1, gen[c].pos)
            /\ pulls[c] <= gen[c].pos + 1
            /\ gen[c].state = "created" => pulls[c] = 0

C13_Witness ==
    /\ Hooked("A")
    /\ gen["A"].state = "suspended"
    /\ pulls["A"] = 1
    /\ gen["A"].pos = 1
    /\ Len(Upstream("A")) = 2
    /\ delivered["A"] = << Upstream("A")[1] >>

\* expected_len as the claim gives it: the length of a list input, 1 for a
\* string, a missing input or any other value
ClaimedExpectedLen(input) ==
    CASE input.py = "list" -> Len(input.items)
      [] input.py = "str" -> 1
      [] input.py = "None" -> 1
      [] input.py = "tuple" -> 1

\* C14: the cardinality check of Moderation.create runs on the first result
\* of every call, from the cache or from the live backend: the call goes on
\* to a second attempt exactly when the number of results of the first
\* differs from expected_len, which is the length of a list input (0 for the
\* empty list) and 1 for every other input.
C14_ExpectedLen ==
    \A c \in Calls :
        (ModerationCall(c) /\ Len(adaptLog[c]) >= 1
                           /\ adaptLog[c][1].outcome = "ok") =>
            /\ adaptLog[c][1].source \in {"cache", "live"}
            /\ (Len(adaptLog[c]) = 1 /\ attempt[c] = 1) =>
                   \/ pc[c] = "check"
                   \/ pc[c] = "returned" /\ ret[c] = adaptLog[c][1].result
            /\ pc[c] # "check" =>
                   (attempt[c] = 2 <=>
                       Len(adaptLog[c][1].result.results)
                           # ClaimedExpectedLen(adaptLog[c][1].kwargs.input))

C14_Witness ==
    /\ ModerationCall("A")
    /\ kw["A"].input = PyList(<< >>)
    /\ Len(adaptLog["A"]) = 2
    /\ adaptLog["A"][1].source = "cache"
    /\ Len(adaptLog["A"][1].result.results) = 1
    /\ attempt["A"] = 2

\* C15: with several streaming chat calls in flight and their consumers
\* pulling in any interleaving, the text a generator has accumulated is the
\* concatenation of the deltas its own consumer received, a call stores at
\* most once, and what it stores is the concatenation of the deltas of its
\* own stream.
C15_AccumulatorIsolation ==
    \A c \in Calls :
        Hooked(c) =>
            /\ gen[c].total_answer = ConcatDeltas(delivered[c])
            /\ Len(stored[c]) <= 1
            /\ stored[c] # << >> =>
                   stored[c][1] = Answer(ConcatDeltas(Upstream(c)), "STR")

C15_Witness ==
    /\ Hooked("A") /\ Hooked("B")
    /\ gen["A"].state = "done"
    /\ stored["A"] = << Answer("ab", "STR") >>
    /\ gen["B"].state = "suspended"
    /\ gen["B"].total_answer = "b"
    /\ pulls["B"] = 1
    /\ stored["B"] = << >>

\* what holds of the adapt calls of a Moderation.create call in every state
AdaptCallsOfModeration(c) ==
    /\ Len(adaptLog[c]) <= 2
    /\ liveCalls[c] <= 2
    /\ attempt[c] <= 2
    /\ pc[c] = "returned" =>
           IF FirstMismatch(c)
              THEN /\ Len(adaptLog[c]) = 2
                   /\ ret[c] = adaptLog[c][2].result
              ELSE /\ Len(adaptLog[c]) = 1
                   /\ ret[c] = adaptLog[c][1].result
                   /\ kw[c] = adaptLog[c][1].kwargs
    /\ pc[c] = "raised" => adaptLog[c][Len(adaptLog[c])].outcome = "raised"

\* C16: Moderation.create calls adapt at most twice and always terminates:
\* once when the first result has expect_res_len results (that result is
\* returned and cache_skip is as the caller passed it), twice otherwise, and
\* the second result is returned whatever its number of results.
C16_AtMostTwoAdaptCalls ==
    /\ [](\A c \in Calls : ModerationCall(c) => AdaptCallsOfModeration(c))
    /\ \A c \in Calls :
           (ModerationCall(c) /\ pc[c] = "adapt") ~> pc[c] \in {"returned", "raised"}

C16_Witness ==
    /\ ModerationCall("A")
    /\ pc["A"] = "returned"
    /\ Len(adaptLog["A"]) = 2
    /\ liveCalls["A"] = 2
    /\ adaptLog["A"][1].source = "live"
    /\ Len(ret["A"].results) # ExpectResLen(kw["A"].input)

\* C17: the answer of a stream is stored only by the pull that observes the
\* exhaustion of upstream: as long as the consumer has made no more pulls
\* than there are chunks, all n chunks received or not, nothing is stored,
\* and a consumer that takes the n chunks and drops the stream leaves the
\* answer unstored.
C17_StoreOnExhaustingPull ==
    \A c \in Calls :
        Hooked(c) =>
            /\ pulls[c] <= Len(Upstream(c)) => stored[c] = << >>
            /\ gen[c].state \in {"created", "suspended", "closed"} => stored[c] = << >>
            /\ stored[c] # << >> =>
                   /\ pulls[c] = Len(Upstream(c)) + 1
                   /\ ~llm_data[c].fails

C17_Witness ==
    /\ Hooked("A")
    /\ ~llm_data["A"].fails
    /\ Len(Upstream("A")) = 2
    /\ delivered["A"] = Upstream("A")
    /\ pulls["A"] = 2
    /\ gen["A"].state = "closed"
    /\ gen["A"].total_answer = "ab"
    /\ stored["A"] = << >>

\* C18: when upstream raises while producing c(k+1), the consumer has
\* received exactly c1..ck unchanged, the error reaches the consumer on that
\* pull, the (k+1)-th, and nothing is ever stored for the call.
C18_UpstreamFailure ==
    \A c \in Calls :
        Hooked(c) =>
            /\ gen[c].state = "failed" =>
                   /\ llm_data[c].fails
                   /\ delivered[c] = Upstream(c)
                   /\ pulls[c] = Len(Upstream(c)) + 1
                   /\ err[c] = RawError("OpenAIError")
                   /\ pc[c] = "returned"
            /\ (llm_data[c].fails /\ pulls[c] = Len(Upstream(c)) + 1) =>
                   gen[c].state = "failed"
            /\ llm_data[c].fails => stored[c] = << >>
            /\ gen[c].state # "failed" => err[c] = None

C18_Witness ==
    /\ Hooked("A")
    /\ gen["A"].state = "failed"
    /\ Len(delivered["A"]) = 1
    /\ gen["A"].total_answer = "a"
    /\ pulls["A"] = 2
    /\ stored["A"] = << >>

\* C19: on a first attempt of Moderation.create that misses the cache, the
\* live response is handed to update_cache_func, unvalidated, before create
\* evaluates the cardinality check: already when the check is about to run
\* the response is stored, whatever its number of results, and it stays
\* stored when the call goes on to retry.
C19_StoreBeforeCheck ==
    \A c \in Calls :
        (ModerationCall(c) /\ Len(adaptLog[c]) >= 1
                           /\ adaptLog[c][1].source = "live"
                           /\ adaptLog[c][1].outcome = "ok"
                           /\ ~adaptLog[c][1].kwargs.cache_skip) =>
            /\ stored[c] # << >>
            /\ stored[c][1] = Answer(json_dumps(adaptLog[c][1].result), "STR")
            /\ pc[c] = "check" => stored[c] = << Answer(json_dumps(res[c]), "STR") >>

C19_Witness ==
    /\ ModerationCall("A")
    /\ pc["A"] = "adapt"
    /\ attempt["A"] = 2
    /\ adaptLog["A"][1].source = "live"
    /\ kw["A"].input = PyStr("a")
    /\ stored["A"] = << Answer(json_dumps(ModerationResponse(<< "A", 1 >>, 0)), "STR") >>

====
